---- MODULE Spec2Model ----
(***************************************************************************)
(* Reverse-mode automatic differentiation of minitorch/autodiff.py:        *)
(* topological_sort, backpropagate and the forward-pass Context.           *)
(*                                                                         *)
(* A computation graph is a set of nodes 1..n (the unique_id of a          *)
(* Variable); node n is the right-most variable, the output.  Every node   *)
(* is classified by is_constant()/is_leaf() and carries its `parents`      *)
(* sequence.  One call of topological_sort or backpropagate is one action: *)
(* the program is single-threaded and a call runs to completion.  What a   *)
(* call does inside (the calls it makes on the nodes, the additions to the *)
(* derivative map) is recorded, in order, in `trace`.                      *)
(***************************************************************************)
EXTENDS Integers, Sequences, FiniteSets

VARIABLES
    n,              \* number of nodes; node n is the output
    kind,           \* kind[v]: "leaf", "const" or "op"
    parents,        \* parents[v]: sequence of node ids
    acc,            \* acc[v]: the leaf's persistent derivative accumulator
    accPrev,        \* acc at the start of the last backpropagate call
    derivatives,    \* the derivative map at the end of the last backpropagate call
    ts,             \* the last topological_sort run: marked, result, recursion record
    ordered_vars,   \* the sequence the last topological_sort call returned
    trace,          \* what the last backpropagate call did, in order
    seeds,          \* the deriv argument of every backpropagate call so far
    pc,             \* "start", "sorted" (topological_sort returned), "done"
                    \* (backpropagate returned), "raised" (RecursionError)
    no_grad,        \* Context.no_grad
    saved_values,   \* Context.saved_values
    lastSaved,      \* the arguments of the last save_for_backward call
    calls           \* number of save_for_backward calls so far

gvars == <<n, kind, parents, acc, accPrev, derivatives, ts, ordered_vars, trace, seeds, pc>>
cvars == <<no_grad, saved_values, lastSaved, calls>>
vars == <<gvars, cvars>>

----------------------------------------------------------------------------
(* Bounds *)

NumNodes == 4        \* nodes of an acyclic graph
MaxEdges == 4        \* operation inputs (edges) of an acyclic graph
CycNodes == 2        \* nodes of an arbitrary (possibly cyclic) graph
MaxRuns == 2         \* backpropagate calls on one graph
RecursionLimit == 8  \* depth at which the interpreter raises RecursionError
MaxSaved == 2        \* values passed to one save_for_backward call
MaxCalls == 3        \* save_for_backward calls on one Context

Seeds == {1, 2}
Values == {"w", "x", "y", "z"}
Kinds == {"leaf", "const", "op"}

----------------------------------------------------------------------------
(* Sequences *)

Range(s) == {s[i] : i \in DOMAIN s}

Reverse(s) == [i \in 1..Len(s) |-> s[Len(s) + 1 - i]]

NoDup(s) == \A i, j \in DOMAIN s : s[i] = s[j] => i = j

Last(s) == s[Len(s)]

RECURSIVE SumSeq(_)
SumSeq(s) == IF s = <<>> THEN 0 ELSE s[1] + SumSeq(Tail(s))

Max(a, b) == IF a >= b THEN a ELSE b

----------------------------------------------------------------------------
(* The Variable protocol *)

Nodes == 1..n

is_constant(v) == kind[v] = "const"

is_leaf(v) == kind[v] = "leaf"

\* The local derivative of operation v with respect to its i-th input.
LocalDeriv(v, i) == v + i

\* chain_rule(d_output): one (parent, d_output * local derivative) pair per
\* input of the operation, positionally aligned with `parents`.
chain_rule(v, d_output) ==
    [i \in 1..Len(parents[v]) |-> <<parents[v][i], d_output * LocalDeriv(v, i)>>]

\* accumulate_derivative(x): adds x to the leaf's accumulator.
accumulate_derivative(a, v, x) == [a EXCEPT ![v] = @ + x]

----------------------------------------------------------------------------
(* topological_sort *)

\* The state of one topological_sort call: the `marked` set and the `result`
\* list of the source, and a record of the recursion (the dfs frames now
\* active, the deepest they got, the nodes dfs marked in order, and whether
\* the interpreter's recursion limit was hit).
NewSort ==
    [marked |-> {}, result |-> <<>>, depth |-> 0, peak |-> 0,
     entered |-> <<>>, raised |-> FALSE]

RECURSIVE dfs(_, _)
RECURSIVE dfs_parents(_, _, _)

\* visit(v): result.append(v)
visit(v, st) == [st EXCEPT !.result = Append(@, v)]

\* dfs_parents with the `not in marked` test left out.
dfs_parents_unguarded(v, i, st) ==
    IF i > Len(parents[v]) \/ st.raised
    THEN st
    ELSE dfs_parents(v, i + 1, dfs(parents[v][i], st))

\* for w in v.parents: if w.unique_id not in marked: dfs(w)
\* (from the i-th parent on; a RecursionError ends the loop)
dfs_parents(v, i, st) ==
    IF i > Len(parents[v]) \/ st.raised
    THEN st
    ELSE LET w == parents[v][i]
         IN  dfs_parents(v, i + 1, IF w \notin st.marked THEN dfs(w, st) ELSE st)

\* dfs with the is_constant test left out.
dfs_no_constant_test(v, st) ==
    IF st.depth >= RecursionLimit
    THEN [st EXCEPT !.raised = TRUE]
    ELSE LET s0 == [st EXCEPT !.depth = @ + 1, !.peak = Max(@, st.depth + 1)]
             s1 == [s0 EXCEPT !.marked = @ \cup {v}, !.entered = Append(@, v)]
             s2 == dfs_parents(v, 1, s1)
         IN  IF s2.raised THEN s2
             ELSE [visit(v, s2) EXCEPT !.depth = @ - 1]

\* dfs that visits v before its parents (pre-order).
dfs_visit_first(v, st) ==
    IF st.depth >= RecursionLimit
    THEN [st EXCEPT !.raised = TRUE]
    ELSE LET s0 == [st EXCEPT !.depth = @ + 1, !.peak = Max(@, st.depth + 1)]
         IN  IF is_constant(v)
             THEN [s0 EXCEPT !.depth = @ - 1]
             ELSE LET s1 == [s0 EXCEPT !.marked = @ \cup {v}, !.entered = Append(@, v)]
                      s2 == dfs_parents(v, 1, visit(v, s1))
                  IN  IF s2.raised THEN s2
                      ELSE [s2 EXCEPT !.depth = @ - 1]

\* dfs(v): return at a constant; mark v, recurse into the unmarked parents,
\* then visit v.
dfs(v, st) ==
    IF st.depth >= RecursionLimit
    THEN [st EXCEPT !.raised = TRUE]
    ELSE LET s0 == [st EXCEPT !.depth = @ + 1, !.peak = Max(@, st.depth + 1)]
         IN  IF is_constant(v)
             THEN [s0 EXCEPT !.depth = @ - 1]
             ELSE LET s1 == [s0 EXCEPT !.marked = @ \cup {v}, !.entered = Append(@, v)]
                      s2 == dfs_parents(v, 1, s1)
                  IN  IF s2.raised THEN s2
                      ELSE [visit(v, s2) EXCEPT !.depth = @ - 1]

\* The run of dfs(variable) from empty `marked` and `result`.
sort_run(variable) == dfs(variable, NewSort)

\* topological_sort that returns the post-order list unreversed.
topological_sort_unreversed(variable) == sort_run(variable).result

\* topological_sort(variable): list(reversed(result))
topological_sort(variable) == Reverse(sort_run(variable).result)

----------------------------------------------------------------------------
(* backpropagate *)

\* One line of `trace`: a call on node `var` (op "accumulate_derivative" or
\* "chain_rule", with its argument x), or what became of a pair that
\* chain_rule of node `from` returned for `var` (op "add" or "discard").
Entry(op, var, x, from) == [op |-> op, var |-> var, x |-> x, from |-> from]

\* The dict assignment f[k] = x.
Put(f, k, x) == [u \in (DOMAIN f) \cup {k} |-> IF u = k THEN x ELSE f[u]]

\* init_derivatives that starts from the entries the previous call left.
init_derivatives_stale(ordered, variable, deriv) ==
    Put([u \in Range(ordered) |->
            IF u \in DOMAIN derivatives THEN derivatives[u] ELSE 0],
        variable, deriv)

\* derivatives = {var.unique_id: 0 for var in ordered_vars}
\* derivatives[variable.unique_id] = deriv
init_derivatives(ordered, variable, deriv) ==
    Put([u \in Range(ordered) |-> 0], variable, deriv)

\* contribute that assigns where the source adds.
contribute_overwrite(var, pair, st) ==
    LET parent_var == pair[1]
        deriv == pair[2]
    IN  IF is_constant(parent_var)
        THEN [st EXCEPT !.trace = Append(@, Entry("discard", parent_var, deriv, var))]
        ELSE [st EXCEPT !.derivatives = Put(@, parent_var, deriv),
                        !.trace = Append(@, Entry("add", parent_var, deriv, var))]

\* contribute with the is_constant test left out.
contribute_to_constant(var, pair, st) ==
    LET parent_var == pair[1]
        deriv == pair[2]
    IN  IF parent_var \in DOMAIN st.derivatives
        THEN [st EXCEPT !.derivatives[parent_var] = @ + deriv,
                        !.trace = Append(@, Entry("add", parent_var, deriv, var))]
        ELSE [st EXCEPT !.derivatives = Put(@, parent_var, deriv),
                        !.trace = Append(@, Entry("add", parent_var, deriv, var))]

\* The body of `for parent_var, deriv in var.chain_rule(d_output)`.
contribute(var, pair, st) ==
    LET parent_var == pair[1]
        deriv == pair[2]
    IN  IF is_constant(parent_var)
        THEN [st EXCEPT !.trace = Append(@, Entry("discard", parent_var, deriv, var))]
        ELSE IF parent_var \in DOMAIN st.derivatives
        THEN [st EXCEPT !.derivatives[parent_var] = @ + deriv,
                        !.trace = Append(@, Entry("add", parent_var, deriv, var))]
        ELSE [st EXCEPT !.derivatives = Put(@, parent_var, deriv),
                        !.trace = Append(@, Entry("add", parent_var, deriv, var))]

\* for parent_var, deriv in var.chain_rule(d_output): ...  (from the j-th pair on)
RECURSIVE fan_out(_, _, _, _)
fan_out(var, pairs, j, st) ==
    IF j > Len(pairs)
    THEN st
    ELSE fan_out(var, pairs, j + 1, contribute(var, pairs[j], st))

\* process that also propagates from a leaf.
process_through_leaf(var, st) ==
    LET d_output == st.derivatives[var]
        called == [st EXCEPT !.trace = Append(@, Entry("chain_rule", var, d_output, var))]
    IN  IF is_leaf(var)
        THEN LET s1 == [st EXCEPT
                          !.acc = accumulate_derivative(@, var, st.derivatives[var]),
                          !.trace = Append(@, Entry("accumulate_derivative", var,
                                                    st.derivatives[var], var))]
             IN  fan_out(var, chain_rule(var, d_output), 1,
                         [s1 EXCEPT !.trace = Append(@, Entry("chain_rule", var, d_output, var))])
        ELSE fan_out(var, chain_rule(var, d_output), 1, called)

\* The body of `for var in ordered_vars`.
process(var, st) ==
    IF is_leaf(var)
    THEN [st EXCEPT !.acc = accumulate_derivative(@, var, st.derivatives[var]),
                    !.trace = Append(@, Entry("accumulate_derivative", var,
                                              st.derivatives[var], var))]
    ELSE LET d_output == st.derivatives[var]
             called == [st EXCEPT
                          !.trace = Append(@, Entry("chain_rule", var, d_output, var))]
         IN  fan_out(var, chain_rule(var, d_output), 1, called)

\* for var in ordered_vars: ...  (from the i-th variable on)
RECURSIVE backprop_loop(_, _, _)
backprop_loop(ordered, i, st) ==
    IF i > Len(ordered)
    THEN st
    ELSE backprop_loop(ordered, i + 1, process(ordered[i], st))

\* backpropagate(variable, deriv), run on the accumulators a: the
\* accumulators, the derivative map and the trace at its return.
backpropagate(variable, deriv, a) ==
    LET ordered == topological_sort(variable)
    IN  backprop_loop(ordered, 1,
            [derivatives |-> init_derivatives(ordered, variable, deriv),
             acc |-> a, trace |-> <<>>])

----------------------------------------------------------------------------
(* Context *)

\* save_for_backward that stores whatever no_grad says.
save_for_backward_always(ng, sv, values) == values

\* save_for_backward(*values): the new saved_values.
save_for_backward(ng, sv, values) == IF ng THEN sv ELSE values

\* The saved_tensors property.
saved_tensors == saved_values

----------------------------------------------------------------------------
(* Graphs *)

\* The parents of a node taking its inputs in S: none, one or two, the
\* arities of the operations of the library.
ParentSeqs(S) == {<<>>} \cup {<<a>> : a \in S} \cup {<<a, b>> : a \in S, b \in S}

\* Graphs built bottom-up: an operation only references nodes made before it.
RECURSIVE DagShapes(_)
DagShapes(k) ==
    IF k = 0 THEN {<<>>}
    ELSE {Append(g, s) : g \in DagShapes(k - 1), s \in ParentSeqs(1..(k - 1))}

EdgeCount(g) == SumSeq([v \in DOMAIN g |-> Len(g[v])])

\* Every node but the last is an input of some node.
AllUsed(g) == \A v \in 1..(Len(g) - 1) : \E c \in DOMAIN g : v \in Range(g[c])

Tuples(S, k) == UNION {[1..m -> S] : m \in 0..k}

InitRun ==
    /\ acc = [v \in 1..n |-> 0]
    /\ accPrev = acc
    /\ derivatives = <<>>
    /\ ts = NewSort
    /\ ordered_vars = <<>>
    /\ trace = <<>>
    /\ seeds = <<>>
    /\ pc = "start"

NoContext ==
    /\ no_grad = FALSE
    /\ saved_values = <<>>
    /\ lastSaved = <<>>
    /\ calls = 0

NoGraph ==
    /\ n = 0
    /\ kind = <<>>
    /\ parents = <<>>
    /\ InitRun

\* An acyclic graph of at most NumNodes nodes and MaxEdges edges, before any
\* call.  An operation has at least one input; a leaf or a constant may be
\* given parents too, which the Variable protocol does not exclude.
Init ==
    /\ n \in 1..NumNodes
    /\ parents \in {g \in DagShapes(n) : EdgeCount(g) <= MaxEdges /\ AllUsed(g)}
    /\ kind \in [1..n -> Kinds]
    /\ \A v \in 1..n : kind[v] = "op" => parents[v] # <<>>
    /\ InitRun
    /\ NoContext

\* Any graph of CycNodes nodes, cycles and self-loops included, before any call.
InitCyc ==
    /\ n = CycNodes
    /\ parents \in [1..n -> ParentSeqs(1..n)]
    /\ kind \in [1..n -> Kinds]
    /\ InitRun
    /\ NoContext

\* Context(no_grad=b): saved_values takes its default, ().
InitCtx ==
    /\ no_grad \in BOOLEAN
    /\ saved_values = <<>>
    /\ lastSaved = <<>>
    /\ calls = 0
    /\ NoGraph

----------------------------------------------------------------------------
(* Actions *)

\* A direct call topological_sort(output).
TopologicalSortCall ==
    /\ pc = "start"
    /\ LET run == sort_run(n)
       IN  /\ ts' = run
           /\ ordered_vars' = IF run.raised THEN <<>> ELSE topological_sort(n)
           /\ pc' = IF run.raised THEN "raised" ELSE "sorted"
    /\ UNCHANGED <<n, kind, parents, acc, accPrev, derivatives, trace, seeds>>
    /\ UNCHANGED cvars

\* A call backpropagate(output, d).
Backpropagate(d) ==
    /\ pc # "raised"
    /\ Len(seeds) < MaxRuns
    /\ seeds' = Append(seeds, d)
    /\ LET run == sort_run(n)
       IN  /\ ts' = run
           /\ IF run.raised
              THEN /\ pc' = "raised"
                   /\ UNCHANGED <<acc, accPrev, derivatives, ordered_vars, trace>>
              ELSE LET b == backpropagate(n, d, acc)
                   IN  /\ pc' = "done"
                       /\ ordered_vars' = topological_sort(n)
                       /\ accPrev' = acc
                       /\ acc' = b.acc
                       /\ derivatives' = b.derivatives
                       /\ trace' = b.trace
    /\ UNCHANGED <<n, kind, parents>>
    /\ UNCHANGED cvars

\* A call ctx.save_for_backward(*values).
SaveForBackward(values) ==
    /\ calls < MaxCalls
    /\ saved_values' = save_for_backward(no_grad, saved_values, values)
    /\ lastSaved' = values
    /\ calls' = calls + 1
    /\ UNCHANGED no_grad
    /\ UNCHANGED gvars

Next ==
    \/ TopologicalSortCall
    \/ \E d \in Seeds : Backpropagate(d)

NextCyc == TopologicalSortCall

NextCtx == \E values \in Tuples(Values, MaxSaved) : SaveForBackward(values)

Spec == Init /\ [][Next]_vars

SpecCyc == InitCyc /\ [][NextCyc]_vars

SpecCtx == InitCtx /\ [][NextCtx]_vars

----------------------------------------------------------------------------
(* Graph notions the properties are stated with *)

Returned == pc \in {"sorted", "done"}

\* S with the non-constant parents of its nodes, to a fixed point.
RECURSIVE ClosureNC(_)
ClosureNC(S) ==
    LET T == S \cup {p \in Nodes :
                       ~is_constant(p) /\ \E c \in S : p \in Range(parents[c])}
    IN  IF T = S THEN S ELSE ClosureNC(T)

\* S with the parents of its nodes, constant or not, to a fixed point.
RECURSIVE ClosureAll(_)
ClosureAll(S) ==
    LET T == S \cup {p \in Nodes : \E c \in S : p \in Range(parents[c])}
    IN  IF T = S THEN S ELSE ClosureAll(T)

\* The non-constant nodes reachable from the output through non-constant nodes.
ReachNC == IF is_constant(n) THEN {} ELSE ClosureNC({n})

\* The nodes reachable from the output via the parent relation.
ReachAll == ClosureAll({n})

\* A cycle of non-constant nodes is reachable from the output.
CycleNC ==
    \E v \in ReachNC :
        v \in ClosureNC({p \in Range(parents[v]) : ~is_constant(p)})

\* In s, every child of the reachable non-constant subgraph occurs, and
\* occurs strictly before each of its parents in that subgraph.
EdgesOrdered(s) ==
    \A c \in ReachNC : \A p \in ReachNC :
        p \in Range(parents[c]) =>
            /\ \E i \in DOMAIN s : s[i] = c
            /\ \E j \in DOMAIN s : s[j] = p
            /\ \A i \in DOMAIN s : \A j \in DOMAIN s :
                   (s[i] = c /\ s[j] = p) => i < j

\* Sum over every operation c that takes v as an input, and every input
\* position in which it does, of c's own derivative times the local
\* derivative: the derivative of the output with respect to v, seed d.
RECURSIVE PathSum(_, _)
PathSum(v, d) ==
    (IF v = n THEN d ELSE 0)
    + SumSeq([c \in 1..n |->
                IF kind[c] = "op"
                THEN SumSeq([i \in 1..Len(parents[c]) |->
                               IF parents[c][i] = v
                               THEN PathSum(c, d) * LocalDeriv(c, i)
                               ELSE 0])
                ELSE 0])

\* The paths that lead down from u: sequences of edges <<node, input position>>.
RECURSIVE PathsFrom(_)
PathsFrom(u) ==
    {<<>>} \cup UNION {{<<<<u, i>>>> \o p : p \in PathsFrom(parents[u][i])} :
                          i \in 1..Len(parents[u])}

EdgeTarget(e) == parents[e[1]][e[2]]

PathEnd(u, p) == IF p = <<>> THEN u ELSE EdgeTarget(Last(p))

RECURSIVE Weight(_)
Weight(p) == IF p = <<>> THEN 1 ELSE LocalDeriv(p[1][1], p[1][2]) * Weight(Tail(p))

RECURSIVE SumWeights(_)
SumWeights(S) ==
    IF S = {} THEN 0
    ELSE LET p == CHOOSE q \in S : TRUE
         IN  Weight(p) + SumWeights(S \ {p})

\* The paths from the output to v that carry a derivative: no node on them is
\* constant, and every node they leave is an operation (chain_rule is called
\* on it and returns the local derivative of the edge).
LivePaths(v) ==
    {p \in PathsFrom(n) :
        /\ PathEnd(n, p) = v
        /\ ~is_constant(v)
        /\ \A k \in DOMAIN p : kind[p[k][1]] = "op"}

\* Places of the trace.
ProcAt(v) ==
    {k \in DOMAIN trace :
        trace[k].var = v /\ trace[k].op \in {"accumulate_derivative", "chain_rule"}}

AddsTo(v) == {k \in DOMAIN trace : trace[k].var = v /\ trace[k].op = "add"}

AddsFromTo(c, v) == {k \in AddsTo(v) : trace[k].from = c}

AccCalls(v) ==
    {k \in DOMAIN trace : trace[k].var = v /\ trace[k].op = "accumulate_derivative"}

RECURSIVE SumAt(_)
SumAt(K) ==
    IF K = {} THEN 0
    ELSE LET k == CHOOSE j \in K : TRUE
         IN  trace[k].x + SumAt(K \ {k})

Consumers(v) == {c \in Nodes : v \in Range(parents[c])}

\* Node v, processed at place k of the trace, with C the consumers of v that
\* are held to contribute: each was processed before k; each that is an
\* operation added one contribution per input position that is v, of its own
\* total times the local derivative, and a leaf added none; nothing else was
\* added; every addition came before k; and the total read at k is the seed
\* (for the output) or zero, plus exactly those additions.
Disciplined(v, k, C) ==
    /\ \A c \in C : \E j \in ProcAt(c) : j < k
    /\ \A c \in C : \A j \in ProcAt(c) :
           /\ Cardinality(AddsFromTo(c, v)) =
                  IF kind[c] = "op"
                  THEN Cardinality({i \in DOMAIN parents[c] : parents[c][i] = v})
                  ELSE 0
           /\ SumAt(AddsFromTo(c, v)) =
                  IF kind[c] = "op"
                  THEN SumSeq([i \in DOMAIN parents[c] |->
                                 IF parents[c][i] = v
                                 THEN trace[j].x * LocalDeriv(c, i) ELSE 0])
                  ELSE 0
    /\ \A a \in AddsTo(v) : a < k /\ trace[a].from \in C
    /\ trace[k].x = (IF v = n THEN Last(seeds) ELSE 0) + SumAt(AddsTo(v))

----------------------------------------------------------------------------
(* Properties *)

\* C1: on an acyclic graph, after backpropagate(output, d) the amount added
\* to every leaf is the sum, over every path from the output to the leaf
\* along which chain_rule returns local derivatives, of d times the product
\* of those local derivatives (d * g1 * g2 on a chain, the sum of both paths
\* on a diamond).
C1_PathSums ==
    pc = "done" =>
        \A v \in Nodes :
            is_leaf(v) => acc[v] - accPrev[v] = PathSum(v, Last(seeds))

\* A leaf that feeds two operations, both inputs of the output, after a call.
C1_Diamond ==
    /\ pc = "done"
    /\ n = 4
    /\ kind[n] = "op"
    /\ \E x \in Nodes : \E a \in Nodes : \E b \in Nodes :
           /\ a # b
           /\ is_leaf(x) /\ kind[a] = "op" /\ kind[b] = "op"
           /\ parents[a] = <<x>> /\ parents[b] = <<x>>
           /\ parents[n] = <<a, b>>
           /\ acc[x] - accPrev[x] =
                  Last(seeds) * (LocalDeriv(n, 1) * LocalDeriv(a, 1)
                                 + LocalDeriv(n, 2) * LocalDeriv(b, 1))

\* C2 as stated: for any output node, the returned sequence has the output
\* first, and every edge of the reachable non-constant subgraph has its child
\* strictly before its parent.
C2_AsStated ==
    Returned =>
        /\ ordered_vars # <<>>
        /\ ordered_vars[1] = n
        /\ EdgesOrdered(ordered_vars)

\* C2, amended: every edge of the reachable non-constant subgraph has its
\* child strictly before its parent, and the output is first when it is not
\* constant (a constant output gives the empty sequence).
C2_ChildFirst ==
    Returned =>
        /\ EdgesOrdered(ordered_vars)
        /\ ~is_constant(n) => (ordered_vars # <<>> /\ ordered_vars[1] = n)

\* A node with inputs p then q, where p is also an input of q: p is visited
\* first and must still come after q.
C2_SharedInput ==
    /\ Returned
    /\ \E c \in ReachNC : \E p \in ReachNC : \E q \in ReachNC :
           /\ parents[c] = <<p, q>>
           /\ p \in Range(parents[q])
           /\ ordered_vars[1] = n

\* C3 as stated: the returned sequence has no duplicates, contains every
\* non-constant node reachable from the output via the parent relation, and
\* contains no constant node.
C3_AsStated ==
    Returned =>
        /\ NoDup(ordered_vars)
        /\ \A v \in ReachAll : ~is_constant(v) => v \in Range(ordered_vars)
        /\ \A v \in Range(ordered_vars) : ~is_constant(v)

\* C3, amended: the returned sequence has no duplicates, contains every
\* non-constant node reachable from the output through non-constant nodes,
\* and contains no constant node.
C3_ExactlyOnce ==
    Returned =>
        /\ NoDup(ordered_vars)
        /\ \A v \in ReachNC : v \in Range(ordered_vars)
        /\ \A v \in Range(ordered_vars) : ~is_constant(v)

\* A node listed twice in one parents sequence, in the order once.
C3_ListedTwice ==
    /\ Returned
    /\ \E c \in ReachNC : \E x \in ReachNC :
           /\ parents[c] = <<x, x>>
           /\ Cardinality({i \in DOMAIN ordered_vars : ordered_vars[i] = x}) = 1

\* C4 as stated: when a node is processed, every consumer of it in the graph
\* has been processed and has added its contribution; nothing is added
\* afterwards, dropped or counted twice.
C4_AsStated ==
    pc = "done" =>
        \A v \in Nodes : \A k \in ProcAt(v) : Disciplined(v, k, Consumers(v))

\* C4, amended: when a node is processed, every consumer of it that is in the
\* topological order has been processed and has added its contribution;
\* nothing is added afterwards, dropped or counted twice.
C4_ConsumersFirst ==
    pc = "done" =>
        \A v \in Nodes : \A k \in ProcAt(v) :
            Disciplined(v, k, Consumers(v) \cap Range(ordered_vars))

\* A processed node with two consumers, one of which consumes the other.
C4_TwoConsumers ==
    /\ pc = "done"
    /\ \E c \in Nodes : \E q \in Nodes : \E v \in Nodes :
           /\ kind[c] = "op" /\ kind[q] = "op"
           /\ parents[c] = <<v, q>>
           /\ v \in Range(parents[q])
           /\ ProcAt(c) # {} /\ ProcAt(v) # {}
           /\ Cardinality(AddsTo(v)) >= 2

\* C5: nothing flows past a constant node: a pair chain_rule directs at a
\* constant is discarded, a constant never receives accumulate_derivative or
\* chain_rule and has no running total, the amount added to a leaf counts
\* only the paths without a constant node, and a leaf that every path reaches
\* through a constant is left alone.
C5_ConstantsAbsorb ==
    pc = "done" =>
        /\ \A k \in DOMAIN trace :
               is_constant(trace[k].var) <=> trace[k].op = "discard"
        /\ \A c \in Range(ordered_vars) : \A i \in DOMAIN parents[c] :
               (kind[c] = "op" /\ is_constant(parents[c][i])) =>
                   \E k \in DOMAIN trace :
                       /\ trace[k].op = "discard"
                       /\ trace[k].from = c
                       /\ trace[k].var = parents[c][i]
        /\ \A v \in DOMAIN derivatives : is_constant(v) => v = n
        /\ \A v \in Nodes :
               is_leaf(v) =>
                   /\ acc[v] - accPrev[v] = Last(seeds) * SumWeights(LivePaths(v))
                   /\ v \notin ReachNC =>
                          /\ acc[v] = accPrev[v]
                          /\ \A k \in DOMAIN trace : trace[k].var # v

\* A constant input of the output that has a leaf parent, the leaf reachable
\* only through it.
C5_BehindConstant ==
    /\ pc = "done"
    /\ kind[n] = "op"
    /\ \E c \in Range(parents[n]) : \E x \in Nodes :
           /\ is_constant(c)
           /\ is_leaf(x)
           /\ x \in Range(parents[c])
           /\ x \notin ReachNC
           /\ \E k \in DOMAIN trace : trace[k].op = "discard" /\ trace[k].var = c

\* C6: after any number of backpropagate calls on one graph every leaf
\* accumulator holds its initial value (zero) plus the sum of all the calls'
\* contributions; the derivative map of a call holds that call's totals only,
\* and nothing else carries over.
C6_RunsAddUp ==
    pc = "done" =>
        /\ \A v \in Nodes :
               acc[v] = IF is_leaf(v)
                        THEN SumSeq([r \in DOMAIN seeds |-> PathSum(v, seeds[r])])
                        ELSE 0
        /\ DOMAIN derivatives = Range(ordered_vars) \cup {n}
        /\ \A v \in Range(ordered_vars) : derivatives[v] = PathSum(v, Last(seeds))

\* Two calls with seed 1 on a graph where the first left something in a leaf.
C6_CalledTwice ==
    /\ pc = "done"
    /\ seeds = <<1, 1>>
    /\ \E v \in Nodes :
           /\ is_leaf(v) /\ v # n
           /\ accPrev[v] # 0
           /\ acc[v] = 2 * accPrev[v]

\* C7: with no_grad set, save_for_backward leaves saved_values as it was, so
\* saved_tensors stays empty; with no_grad false, saved_tensors is what the
\* last save_for_backward call was given, empty if there was none.
C7_NoGradSkips ==
    /\ no_grad => (saved_values = <<>> /\ saved_tensors = <<>>)
    /\ ~no_grad => saved_tensors = (IF calls = 0 THEN <<>> ELSE lastSaved)

\* Context(no_grad=True) after save_for_backward(x, y).
C7_SavedUnderNoGrad ==
    /\ no_grad
    /\ calls = 1
    /\ lastSaved = <<"x", "y">>
    /\ saved_tensors = <<>>

\* C8 as stated: when a cycle of non-constant nodes is reachable from the
\* output, the recursion of dfs has no bound and topological_sort never
\* returns: the call can only end at the recursion limit.
C8_AsStated ==
    (pc # "start" /\ CycleNC) => pc = "raised"

\* C8, amended: topological_sort does not detect a cycle, and does not recurse
\* without bound on one either: dfs marks a node before it recurses and never
\* enters a marked node, so with a cycle of non-constant nodes reachable it
\* enters every reachable non-constant node once and returns a sequence that
\* holds each of them once, in which some node is not before one of its
\* parents.
C8_CycleReturns ==
    (pc # "start" /\ CycleNC) =>
        /\ pc = "sorted"
        /\ ~ts.raised
        /\ NoDup(ts.entered)
        /\ Range(ts.entered) = ReachNC
        /\ ts.peak <= Cardinality(ReachNC) + 1
        /\ NoDup(ordered_vars)
        /\ Range(ordered_vars) = ReachNC
        /\ ~EdgesOrdered(ordered_vars)

\* The two nodes are each other's input, and the call has returned.
C8_TwoCycle ==
    /\ pc = "sorted"
    /\ n = 2
    /\ ~is_constant(1) /\ ~is_constant(2)
    /\ 1 \in Range(parents[2])
    /\ 2 \in Range(parents[1])
    /\ CycleNC

\* C9 as stated: accumulate_derivative is called once on every non-constant
\* leaf of the topological order, with the leaf's final running total, which
\* is zero when no chain_rule pair named it, and on no other node; chain_rule
\* is never called on a leaf.
C9_AsStated ==
    pc = "done" =>
        /\ \A v \in Nodes :
               /\ Cardinality(AccCalls(v)) =
                      IF is_leaf(v) /\ v \in Range(ordered_vars) THEN 1 ELSE 0
               /\ \A k \in AccCalls(v) :
                      /\ trace[k].x = derivatives[v]
                      /\ AddsTo(v) = {} => trace[k].x = 0
        /\ \A k \in DOMAIN trace : trace[k].op = "chain_rule" => ~is_leaf(trace[k].var)

\* C9, amended: as stated, but the running total of a leaf that no chain_rule
\* pair named is zero unless the leaf is the output, whose total is the seed.
C9_LeafCalls ==
    pc = "done" =>
        /\ \A v \in Nodes :
               /\ Cardinality(AccCalls(v)) =
                      IF is_leaf(v) /\ v \in Range(ordered_vars) THEN 1 ELSE 0
               /\ \A k \in AccCalls(v) :
                      /\ trace[k].x = derivatives[v]
                      /\ (AddsTo(v) = {} /\ v # n) => trace[k].x = 0
                      /\ v = n => trace[k].x = Last(seeds)
        /\ \A k \in DOMAIN trace : trace[k].op = "chain_rule" => ~is_leaf(trace[k].var)

\* A leaf that has a parent, itself a leaf: both are in the order, the
\* first is not propagated from and the second receives zero.
C9_LeafWithParent ==
    /\ pc = "done"
    /\ \E v \in Range(ordered_vars) : \E x \in Range(parents[v]) :
           /\ is_leaf(v) /\ is_leaf(x)
           /\ v # n
           /\ Consumers(x) = {v}
           /\ \E k \in AccCalls(x) : trace[k].x = 0
           /\ \E k \in AccCalls(v) : trace[k].x # 0

\* C10: when the output is constant, topological_sort returns the empty
\* sequence and backpropagate calls neither accumulate_derivative nor
\* chain_rule on any node, whatever parents the output has.
C10_ConstantOutput ==
    is_constant(n) =>
        /\ Returned => ordered_vars = <<>>
        /\ pc = "done" => (trace = <<>> /\ acc = accPrev)

\* A constant output with two parents, after backpropagate.
C10_ConstantWithParents ==
    /\ pc = "done"
    /\ is_constant(n)
    /\ Len(parents[n]) = 2
    /\ \E p \in Range(parents[n]) : is_leaf(p)

====
